---- MODULE Spec2Model ----
(***************************************************************************)
(* Model of theme/make-sprite.py: make_sprite builds an SVG element tree   *)
(* (root, defs block, colour swatches, eight board columns with their      *)
(* pieces) and writes its serialisation once to the sink handed in by the  *)
(* caller.                                                                 *)
(*                                                                         *)
(* A Python str holding a decimal number (the value of str(n)) is modelled *)
(* as the sequence of its digit characters, so that reading a coordinate   *)
(* back out of an attribute is a real parse.  All other strings are TLA+   *)
(* strings, joined with \o as the f-strings join them.                     *)
(***************************************************************************)
EXTENDS Integers, Sequences, FiniteSets, TLC

\* ---------------------------------------------------------------- bounds
MaxS == 3
MaxRuns == 2

\* ------------------------------------------------------------- constants
DefaultSquareSize == 45

SquareSizes == (1..MaxS) \cup {DefaultSquareSize}

COLORS ==
  << "#dee3e6", "#8ca2ad", "#ced26b", "#aaa23b", "#262421",
     "#bababa", "#bf811d", "#b72fc6", "#706f6e" >>

\* chess.PIECE_NAMES: index 0 is None, 1..6 are the names below.
PIECE_NAMES ==
  << "pawn", "knight", "bishop", "rook", "queen", "king" >>

\* chess.svg.PIECES: a dict, iterated in insertion order; each value is the
\* text of a <g id="..."> fragment.
PIECES ==
  << [key |-> "b", tag |-> "g", id |-> "black-bishop"],
     [key |-> "k", tag |-> "g", id |-> "black-king"],
     [key |-> "n", tag |-> "g", id |-> "black-knight"],
     [key |-> "p", tag |-> "g", id |-> "black-pawn"],
     [key |-> "q", tag |-> "g", id |-> "black-queen"],
     [key |-> "r", tag |-> "g", id |-> "black-rook"],
     [key |-> "B", tag |-> "g", id |-> "white-bishop"],
     [key |-> "K", tag |-> "g", id |-> "white-king"],
     [key |-> "N", tag |-> "g", id |-> "white-knight"],
     [key |-> "P", tag |-> "g", id |-> "white-pawn"],
     [key |-> "Q", tag |-> "g", id |-> "white-queen"],
     [key |-> "R", tag |-> "g", id |-> "white-rook"] >>

CHECK_GRADIENT ==
  [key |-> "check", tag |-> "radialGradient", id |-> "check_gradient"]

\* Index of the gradient among the fragments handed to ET.fromstring.
GradientIndex == Len(PIECES) + 1

NoElement == [tag |-> "None"]

\* ------------------------------------------------------------------ state
VARIABLES
  SQUARE_SIZE,  \* chess.svg.SQUARE_SIZE, supplied by the glyph provider
  malformed,    \* index of a fragment that is not well-formed XML, 0 = none
  pc,           \* position of the script
  svg,          \* the root element (its attributes)
  defs,         \* children of the defs element
  children,     \* children of the root element, in document order
  it,           \* dict iterator over PIECES: indexes not yet visited
  x,            \* loop variable of the enumerate / range(8) loops
  y,            \* loop variable of range(1, 8)
  sink,         \* the byte strings written to f, in order
  sinkOpen,     \* whether the file object f is open
  run,          \* number of the current invocation of the script
  prev          \* what the previous invocation wrote

vars ==
  << SQUARE_SIZE, malformed, pc, svg, defs, children, it, x, y,
     sink, sinkOpen, run, prev >>

\* ------------------------------------------------------- pure functions
Min(a, b) == IF a <= b THEN a ELSE b

Max(a, b) == IF a >= b THEN a ELSE b

Digits == << "0", "1", "2", "3", "4", "5", "6", "7", "8", "9" >>

\* str(n) for a non-negative int: its decimal digits, most significant first.
RECURSIVE Str(_)
Str(n) ==
  IF n < 10 THEN << Digits[n + 1] >>
  ELSE Append(Str(n \div 10), Digits[(n % 10) + 1])

\* The characters of a digit string run together, as an f-string or the
\* serialiser writes them.
RECURSIVE Join(_)
Join(s) ==
  IF s = << >> THEN "" ELSE Head(s) \o Join(Tail(s))

\* COLOR_WIDTH = SQUARE_SIZE * 2 // 3
ColorWidthThirdsFirst(S) == (S \div 3) * 2

COLOR_WIDTH(S) == (S * 2) \div 3

\* COLORS[4:]
AccentColors == SubSeq(COLORS, 5, Len(COLORS))

\* f"0 0 {SQUARE_SIZE * 8} {SQUARE_SIZE * 8}"
ViewBoxSevenHigh(S) ==
  "0 0 " \o Join(Str(S * 8)) \o " " \o Join(Str(S * 7))

ViewBox(S) ==
  "0 0 " \o Join(Str(S * 8)) \o " " \o Join(Str(S * 8))

RootElement(S) ==
  [ tag     |-> "svg",
    xmlns   |-> "http://www.w3.org/2000/svg",
    version |-> "1.1",
    xlink   |-> "http://www.w3.org/1999/xlink",
    viewBox |-> ViewBox(S) ]

\* ET.fromstring(g): the parsed fragment, identified by its id attribute.
Fromstring(g) == [tag |-> g.tag, id |-> g.id]

\* Which key the dict iterator yields next: the earliest inserted.
NextGlyphSeeded(todo, k) ==
  /\ k \in todo
  /\ IF run % 2 = 1 THEN \A j \in todo : k <= j
     ELSE \A j \in todo : k >= j

NextGlyph(todo, k) ==
  k \in todo /\ \A j \in todo : k <= j

\* The swatch rectangle of the enumerate loop, lines 36-44.
SwatchRect(S, i, color) ==
  [ tag    |-> "rect",
    x      |-> Str(S * 4 + COLOR_WIDTH(S) * i),
    y      |-> << "0" >>,
    width  |-> Str(COLOR_WIDTH(S)),
    height |-> Str(S),
    stroke |-> "none",
    fill   |-> color ]

\* str(SQUARE_SIZE if x >= 4 else 0)
BackgroundYZero(S, c) == 0

BackgroundY(S, c) == IF c >= 4 THEN S ELSE 0

\* str(SQUARE_SIZE * (7 if x >= 4 else 8))
BackgroundHeightFull(S, c) == S * 8

BackgroundHeight(S, c) == S * (IF c >= 4 THEN 7 ELSE 8)

\* The column background rectangle, lines 47-54.
BackgroundRect(S, c) ==
  [ tag    |-> "rect",
    x      |-> Str(S * c),
    y      |-> Str(BackgroundY(S, c)),
    width  |-> Str(S),
    height |-> Str(BackgroundHeight(S, c)),
    stroke |-> "none",
    fill   |-> COLORS[(c % 4) + 1] ]

\* piece_type = min(y, 6)
PieceTypeWrap(r) == ((r - 1) % 6) + 1

PieceTypeNoKing(r) == Min(r, 5)

PieceType(r) == Min(r, 6)

\* color = "white" if x >= 4 else "black"
PieceColorOffByOne(c) == IF c > 4 THEN "white" ELSE "black"

PieceColor(c) == IF c >= 4 THEN "white" ELSE "black"

\* f"#{color}-{chess.PIECE_NAMES[piece_type]}"
Href(color, piece_type) ==
  "#" \o color \o "-" \o PIECE_NAMES[piece_type]

\* f"translate({SQUARE_SIZE * x}, {SQUARE_SIZE * y})"
Transform(S, c, r) ==
  "translate(" \o Join(Str(S * c)) \o ", " \o Join(Str(S * r)) \o ")"

\* The check-gradient rectangle, lines 61-67.
CheckRect(S, c, r) ==
  [ tag    |-> "rect",
    x      |-> Str(S * c),
    y      |-> Str(S * r),
    width  |-> Str(S),
    height |-> Str(S),
    fill   |-> "url(#check_gradient)" ]

\* The use element, lines 69-72.
UseElement(S, c, r) ==
  [ tag       |-> "use",
    href      |-> Href(PieceColor(c), PieceType(r)),
    transform |-> Transform(S, c, r) ]

\* What one pass of the inner loop body appends, lines 57-72.
RowElementsUseFirst(S, c, r) ==
  IF r = 7 THEN << UseElement(S, c, r), CheckRect(S, c, r) >>
  ELSE << UseElement(S, c, r) >>

RowElements(S, c, r) ==
  IF r = 7 THEN << CheckRect(S, c, r), UseElement(S, c, r) >>
  ELSE << UseElement(S, c, r) >>

\* range(8) is exhausted
ColumnsDoneEarly(c) == c >= 7

ColumnsDone(c) == c >= 8

\* ---------------------------------------------------------- serialiser
Attr(name, value) == " " \o name \o "=\"" \o value \o "\""

SerializeFragment(e) ==
  "<" \o e.tag \o Attr("id", e.id) \o " />"

RECURSIVE SerializeFragments(_)
SerializeFragments(s) ==
  IF s = << >> THEN ""
  ELSE SerializeFragment(Head(s)) \o SerializeFragments(Tail(s))

SerializeChild(e, d) ==
  CASE e.tag = "defs" ->
         IF d = << >> THEN "<defs />"
         ELSE "<defs>" \o SerializeFragments(d) \o "</defs>"
    [] e.tag = "use" ->
         "<use" \o Attr("xlink:href", e.href)
                \o Attr("transform", e.transform) \o " />"
    [] e.tag = "rect" /\ "stroke" \in DOMAIN e ->
         "<rect" \o Attr("x", Join(e.x)) \o Attr("y", Join(e.y))
                 \o Attr("width", Join(e.width))
                 \o Attr("height", Join(e.height))
                 \o Attr("stroke", e.stroke) \o Attr("fill", e.fill)
                 \o " />"
    [] OTHER ->
         "<rect" \o Attr("x", Join(e.x)) \o Attr("y", Join(e.y))
                 \o Attr("width", Join(e.width))
                 \o Attr("height", Join(e.height))
                 \o Attr("fill", e.fill) \o " />"

RECURSIVE SerializeChildren(_, _)
SerializeChildren(s, d) ==
  IF s = << >> THEN ""
  ELSE SerializeChild(Head(s), d) \o SerializeChildren(Tail(s), d)

\* ET.tostring(svg)
Tostring(root, d, ch) ==
  "<svg" \o Attr("xmlns", root.xmlns) \o Attr("version", root.version)
         \o Attr("xmlns:xlink", root.xlink)
         \o Attr("viewBox", root.viewBox) \o ">"
         \o SerializeChildren(ch, d) \o "</svg>"

\* ------------------------------------------------------------------ Init
Init ==
  /\ SQUARE_SIZE \in SquareSizes
  /\ malformed \in 0..GradientIndex
  /\ pc = "main"
  /\ svg = NoElement
  /\ defs = << >>
  /\ children = << >>
  /\ it = {}
  /\ x = 0
  /\ y = 0
  /\ sink = << >>
  /\ sinkOpen = FALSE
  /\ run = 1
  /\ prev = << >>

\* -------------------------------------------------------------- actions
\* line 78: open("sprite.svg", "wb") truncates the file and hands it over.
Open ==
  /\ pc = "main"
  /\ sinkOpen' = TRUE
  /\ sink' = << >>
  /\ pc' = "root"
  /\ UNCHANGED << SQUARE_SIZE, malformed, svg, defs, children, it, x, y,
                  run, prev >>

\* lines 23-30: the root element and its empty defs child.
Root ==
  /\ pc = "root"
  /\ svg' = RootElement(SQUARE_SIZE)
  /\ children' = << [tag |-> "defs"] >>
  /\ defs' = << >>
  /\ it' = 1..Len(PIECES)
  /\ pc' = "pieces"
  /\ UNCHANGED << SQUARE_SIZE, malformed, x, y, sink, sinkOpen, run, prev >>

\* lines 31-32: one pass of the loop over chess.svg.PIECES.values(); a
\* fragment that does not parse raises and ends the process.
AppendPiece ==
  /\ pc = "pieces"
  /\ \E k \in it :
       /\ NextGlyph(it, k)
       /\ IF malformed = k
          THEN /\ pc' = "aborted"
               /\ sinkOpen' = FALSE
               /\ UNCHANGED << defs, it >>
          ELSE /\ defs' = Append(defs, Fromstring(PIECES[k]))
               /\ it' = it \ {k}
               /\ pc' = IF it \ {k} = {} THEN "gradient" ELSE "pieces"
               /\ UNCHANGED sinkOpen
  /\ UNCHANGED << SQUARE_SIZE, malformed, svg, children, x, y, sink,
                  run, prev >>

\* line 34: the check gradient joins the defs.
AppendGradient ==
  /\ pc = "gradient"
  /\ IF malformed = GradientIndex
     THEN /\ pc' = "aborted"
          /\ sinkOpen' = FALSE
          /\ UNCHANGED << defs, x >>
     ELSE /\ defs' = Append(defs, Fromstring(CHECK_GRADIENT))
          /\ x' = 0
          /\ pc' = "swatches"
          /\ UNCHANGED sinkOpen
  /\ UNCHANGED << SQUARE_SIZE, malformed, svg, children, it, y, sink,
                  run, prev >>

\* lines 36-44: one pass of the loop over enumerate(COLORS[4:]).
Swatch ==
  /\ pc = "swatches"
  /\ x < Len(AccentColors)
  /\ children' =
       Append(children, SwatchRect(SQUARE_SIZE, x, AccentColors[x + 1]))
  /\ IF x + 1 < Len(AccentColors)
     THEN x' = x + 1 /\ pc' = "swatches"
     ELSE x' = 0 /\ pc' = "column"
  /\ UNCHANGED << SQUARE_SIZE, malformed, svg, defs, it, y, sink, sinkOpen,
                  run, prev >>

\* lines 46-54: a pass of the range(8) loop starts with the background.
Column ==
  /\ pc = "column"
  /\ ~ColumnsDone(x)
  /\ children' = Append(children, BackgroundRect(SQUARE_SIZE, x))
  /\ y' = 1
  /\ pc' = "row"
  /\ UNCHANGED << SQUARE_SIZE, malformed, svg, defs, it, x, sink, sinkOpen,
                  run, prev >>

\* lines 56-72: one pass of the range(1, 8) loop.
Row ==
  /\ pc = "row"
  /\ children' = children \o RowElements(SQUARE_SIZE, x, y)
  /\ IF y + 1 < 8
     THEN /\ y' = y + 1
          /\ pc' = "row"
          /\ UNCHANGED x
     ELSE /\ y' = 0
          /\ x' = x + 1
          /\ pc' = IF ColumnsDone(x + 1) THEN "write" ELSE "column"
  /\ UNCHANGED << SQUARE_SIZE, malformed, svg, defs, it, sink, sinkOpen,
                  run, prev >>

\* line 74: f.write(ET.tostring(svg))
Write ==
  /\ pc = "write"
  /\ sink' = Append(sink, Tostring(svg, defs, children))
  /\ pc' = "done"
  /\ UNCHANGED << SQUARE_SIZE, malformed, svg, defs, children, it, x, y,
                  sinkOpen, run, prev >>

\* line 78: make_sprite returns; the unnamed file object is released by the
\* caller's side, which closes it.
Return ==
  /\ pc = "done"
  /\ sinkOpen' = FALSE
  /\ pc' = "exit"
  /\ UNCHANGED << SQUARE_SIZE, malformed, svg, defs, children, it, x, y,
                  sink, run, prev >>

\* lines 77-78: the script is run again with the same provider data.
Rerun ==
  /\ pc \in {"exit", "aborted"}
  /\ run < MaxRuns
  /\ run' = run + 1
  /\ prev' = sink
  /\ pc' = "main"
  /\ svg' = NoElement
  /\ defs' = << >>
  /\ children' = << >>
  /\ it' = {}
  /\ x' = 0
  /\ y' = 0
  /\ UNCHANGED << SQUARE_SIZE, malformed, sink, sinkOpen >>

Next ==
  \/ Open
  \/ Root
  \/ AppendPiece
  \/ AppendGradient
  \/ Swatch
  \/ Column
  \/ Row
  \/ Write
  \/ Return
  \/ Rerun

Spec == Init /\ [][Next]_vars

\* -------------------------------------------- reading the document back
S == SQUARE_SIZE

\* The document is complete: every loop of make_sprite has run.
Built == pc \in {"write", "done", "exit"}

DigitVal(c) == CHOOSE d \in 0..9 : Digits[d + 1] = c

\* The number a decimal attribute value denotes.
RECURSIVE ParseInt(_)
ParseInt(s) ==
  IF Len(s) = 1 THEN DigitVal(s[1])
  ELSE 10 * ParseInt(SubSeq(s, 1, Len(s) - 1)) + DigitVal(s[Len(s)])

Rects == {i \in DOMAIN children : children[i].tag = "rect"}

Uses == {i \in DOMAIN children : children[i].tag = "use"}

\* Rectangles filled with the check gradient.
Overlays == {i \in Rects : children[i].fill = "url(#check_gradient)"}

\* Rectangles with stroke="none": the swatches and the column backgrounds.
Stroked == {i \in Rects : "stroke" \in DOMAIN children[i]}

IsStroked(e) == e.tag = "rect" /\ "stroke" \in DOMAIN e

StrokedSeq == SelectSeq(children, IsStroked)

Left(i) == ParseInt(children[i].x)

Top(i) == ParseInt(children[i].y)

Width(i) == ParseInt(children[i].width)

Height(i) == ParseInt(children[i].height)

Geometry(i) == << Left(i), Top(i), Width(i), Height(i) >>

\* The glyph references translated to cell (c, r).
UsesAt(c, r) == {i \in Uses : children[i].transform = Transform(S, c, r)}

\* The background rectangles of column c.
BackgroundsOf(c) == {i \in Stroked : Left(i) = c * S /\ Width(i) = S}

\* The check-gradient rectangles on cell (c, r).
OverlaysAt(c, r) == {i \in Overlays : Geometry(i) = << c * S, r * S, S, S >>}

\* Two rectangles share an area of positive size.
Overlap(i, j) ==
  /\ Max(Left(i), Left(j)) < Min(Left(i) + Width(i), Left(j) + Width(j))
  /\ Max(Top(i), Top(j)) < Min(Top(i) + Height(i), Top(j) + Height(j))

ColorOf(c) == IF c >= 4 THEN "white" ELSE "black"

\* ------------------------------------------------------------------ C1
\* C1 (as stated): exactly one rectangle filled with url(#check_gradient) is
\* emitted, at cell (column 6, row 7), with x = 6*S, y = 7*S and width =
\* height = S, and it precedes the use element of that cell.
C1_OneOverlayAtColumnSix ==
  Built =>
    /\ Cardinality(Overlays) = 1
    /\ \A i \in Overlays :
         /\ Geometry(i) = << 6 * S, 7 * S, S, S >>
         /\ \E j \in UsesAt(6, 7) : i < j

\* C1 (amended): exactly eight rectangles filled with url(#check_gradient)
\* are emitted, one on row 7 of every column c in 0..7 (x = c*S, y = 7*S,
\* width = height = S), and each precedes the use element of its own cell.
C1_OverlayOnRowSevenOfEveryColumn ==
  Built =>
    /\ Cardinality(Overlays) = 8
    /\ \A c \in 0..7 :
         /\ Cardinality(OverlaysAt(c, 7)) = 1
         /\ \A i \in OverlaysAt(c, 7) :
              /\ UsesAt(c, 7) # {}
              /\ \A j \in UsesAt(c, 7) : i < j

C1_Witness ==
  /\ pc = "write"
  /\ OverlaysAt(6, 7) # {}
  /\ OverlaysAt(0, 7) # {}
  /\ UsesAt(6, 7) # {}

\* ------------------------------------------------------------------ C2
\* C2: every reference emitted (each use href, each check_gradient fill)
\* names the id of a fragment already copied into defs, and the finished
\* document references all 12 {color}-{piece_name} identifiers.
C2_ReferencesResolve ==
  /\ \A j \in Uses :
       \E d \in DOMAIN defs : children[j].href = "#" \o defs[d].id
  /\ \A i \in Overlays :
       \E d \in DOMAIN defs :
         children[i].fill = "url(#" \o defs[d].id \o ")"
  /\ Built =>
       \A color \in {"black", "white"} : \A n \in 1..6 :
         \E j \in Uses :
           children[j].href = "#" \o color \o "-" \o PIECE_NAMES[n]

C2_Witness ==
  /\ pc = "exit"
  /\ \E j \in Uses : children[j].href = "#white-king"
  /\ \E d \in DOMAIN defs : defs[d].id = "white-king"
  /\ \E d \in DOMAIN defs : defs[d].id = "check_gradient"

\* ------------------------------------------------------------------ C3
\* The five swatches are the first five stroke="none" rectangles: y = 0,
\* height S, width w, swatch i at x = 4*S + i*w, filled with palette entries
\* 4..8; the remaining eight stroke="none" rectangles are not one row tall.
SwatchesWithWidth(w) ==
  /\ Len(StrokedSeq) = 13
  /\ \A i \in 0..4 :
       /\ ParseInt(StrokedSeq[i + 1].y) = 0
       /\ ParseInt(StrokedSeq[i + 1].height) = S
       /\ ParseInt(StrokedSeq[i + 1].width) = w
       /\ ParseInt(StrokedSeq[i + 1].x) = 4 * S + i * w
       /\ StrokedSeq[i + 1].fill = COLORS[4 + i + 1]
  /\ \A k \in 6..13 : ParseInt(StrokedSeq[k].height) # S

\* C3 (as stated): exactly 5 swatches, each of width S*2/3 (two thirds of
\* the cell size), contiguous from x = 4*S, filled with palette entries 4..8.
C3_SwatchWidthTwoThirds ==
  Built =>
    /\ \E w \in 0..S : 3 * w = 2 * S
    /\ \A w \in 0..S : 3 * w = 2 * S => SwatchesWithWidth(w)

\* C3 (amended): exactly 5 swatches, each of width floor(S*2/3), contiguous
\* from x = 4*S, filled with palette entries 4..8.
C3_SwatchWidthFloorTwoThirds ==
  Built =>
    \A w \in 0..S :
      (3 * w <= 2 * S /\ 2 * S < 3 * (w + 1)) => SwatchesWithWidth(w)

C3_Witness ==
  /\ pc = "write"
  /\ S = 2
  /\ Len(StrokedSeq) = 13
  /\ ParseInt(StrokedSeq[5].x) = 12

\* ------------------------------------------------------------------ C4
\* C4: every column c in 0..7 has exactly one background rectangle with
\* x = c*S and width S, filled with palette colour c mod 4; columns 0..3
\* have y = 0 and height 8*S, columns 4..7 have y = S and height 7*S.
C4_ColumnBackgrounds ==
  Built =>
    \A c \in 0..7 :
      /\ Cardinality(BackgroundsOf(c)) = 1
      /\ \A i \in BackgroundsOf(c) :
           /\ children[i].fill = COLORS[(c % 4) + 1]
           /\ c <= 3 => Top(i) = 0 /\ Height(i) = 8 * S
           /\ c >= 4 => Top(i) = S /\ Height(i) = 7 * S

C4_Witness ==
  /\ pc = "done"
  /\ \E i \in BackgroundsOf(5) : Top(i) = S /\ Height(i) = 7 * S
  /\ \E i \in BackgroundsOf(1) : Top(i) = 0 /\ Height(i) = 8 * S

\* ------------------------------------------------------------------ C5
\* C5: in every column the glyph on row 7 is the one on row 6, the king of
\* the column's colour, and rows 1..5 carry the piece types 1..5.
C5_RowSevenRepeatsKing ==
  Built =>
    \A c \in 0..7 :
      /\ \A r \in 1..7 : UsesAt(c, r) # {}
      /\ \A i \in UsesAt(c, 7) : \A j \in UsesAt(c, 6) :
           /\ children[i].href = children[j].href
           /\ children[i].href = "#" \o ColorOf(c) \o "-king"
      /\ \A r \in 1..5 : \A i \in UsesAt(c, r) :
           children[i].href = "#" \o ColorOf(c) \o "-" \o PIECE_NAMES[r]

C5_Witness ==
  /\ Built
  /\ \E i \in UsesAt(3, 7) : children[i].href = "#black-king"
  /\ \E i \in UsesAt(3, 6) : children[i].href = "#black-king"
  /\ \E i \in UsesAt(4, 1) : children[i].href = "#white-pawn"

C7_ViewBox ==
  svg # NoElement =>
    /\ svg.viewBox = "0 0 " \o Join(Str(8 * S)) \o " " \o Join(Str(8 * S))
    /\ S = 1 => svg.viewBox = "0 0 8 8"
    /\ S = 45 =>
         /\ svg.viewBox = "0 0 360 360"
         /\ Built =>
              /\ children[2].tag = "rect"
              /\ children[2].x = << "1", "8", "0" >>
              /\ children[2].y = << "0" >>
              /\ children[2].width = << "3", "0" >>
              /\ children[2].height = << "4", "5" >>
              /\ children[2].fill = "#262421"

C7_Witness ==
  /\ S = 45
  /\ pc = "done"
  /\ svg.viewBox = "0 0 360 360"
  /\ Len(sink) = 1

\* ------------------------------------------------------------------ C8
AllInsideViewBox ==
  \A i \in Rects :
    Left(i) + Width(i) <= 8 * S /\ Top(i) + Height(i) <= 8 * S

\* C8 (as stated): no two distinct rectangles share an area of positive
\* size, except the gradient rectangle of cell (6, 7) and the background of
\* column 6; every rectangle stays inside the 8*S by 8*S viewBox.
C8_OnlyColumnSixOverlaps ==
  Built =>
    /\ AllInsideViewBox
    /\ \A i \in Rects : \A j \in Rects :
         (i # j /\ Overlap(i, j)) =>
           \/ i \in OverlaysAt(6, 7) /\ j \in BackgroundsOf(6)
           \/ j \in OverlaysAt(6, 7) /\ i \in BackgroundsOf(6)

\* C8 (amended): no two distinct rectangles share an area of positive size,
\* except the gradient rectangle on row 7 of a column and the background of
\* that same column; every rectangle stays inside the viewBox.
C8_OnlyOverlaysOverlapOwnColumn ==
  Built =>
    /\ AllInsideViewBox
    /\ \A i \in Rects : \A j \in Rects :
         (i # j /\ Overlap(i, j)) =>
           \E c \in 0..7 :
             \/ i \in OverlaysAt(c, 7) /\ j \in BackgroundsOf(c)
             \/ j \in OverlaysAt(c, 7) /\ i \in BackgroundsOf(c)

C8_Witness ==
  /\ pc = "exit"
  /\ S = 2
  /\ \E i \in OverlaysAt(5, 7) : \E j \in BackgroundsOf(5) : Overlap(i, j)
  /\ \E i \in Stroked : Geometry(i) = << 12, 0, 1, 2 >>

\* ------------------------------------------------------------------ C9
WholeDocument ==
  /\ Len(defs) = 13
  /\ Cardinality(Stroked) = 13
  /\ Cardinality(Uses) = 56
  /\ \A c \in 0..7 : BackgroundsOf(c) # {}

\* C9: the sink receives at most one write per run and exactly one in a run
\* that completes; the write carries the serialisation of the whole document
\* (defs, swatches, all 8 columns); make_sprite leaves the sink open; a run
\* that aborts has written nothing.
C9_WriteOnceAfterBuild ==
  /\ Len(sink) <= 1
  /\ (pc # "main" /\ sink # << >>) =>
       /\ pc \in {"done", "exit"}
       /\ WholeDocument
       /\ sink[1] = Tostring(svg, defs, children)
  /\ pc \in {"done", "exit"} => Len(sink) = 1
  /\ pc \notin {"main", "exit", "aborted"} => sinkOpen
  /\ pc = "aborted" => sink = << >>

C9_Witness ==
  /\ pc = "done"
  /\ Len(sink) = 1
  /\ sinkOpen
  /\ WholeDocument

\* ----------------------------------------------------------------- C10
\* C10: exactly 56 glyph references, one per column 0..7 and row 1..7, of
\* colour white for columns >= 4 and black otherwise, none on row 0; defs
\* first, then the 5 swatches, then the columns in ascending order, each
\* background before its 7 glyphs, which are in ascending row order.
C10_GlyphsAndDocumentOrder ==
  Built =>
    /\ Cardinality(Uses) = 56
    /\ children[1].tag = "defs"
    /\ \A i \in 2..6 : i \in Stroked /\ Height(i) = S /\ Top(i) = 0
    /\ \A c \in 0..7 :
         /\ UsesAt(c, 0) = {}
         /\ Cardinality(BackgroundsOf(c)) = 1
         /\ \A r \in 1..7 :
              /\ Cardinality(UsesAt(c, r)) = 1
              /\ \A i \in UsesAt(c, r) :
                   \E n \in 1..6 :
                     children[i].href =
                       "#" \o ColorOf(c) \o "-" \o PIECE_NAMES[n]
         /\ \A b \in BackgroundsOf(c) :
              /\ b > 6
              /\ \A i \in UsesAt(c, 1) : b < i
         /\ \A r \in 1..6 :
              \A i \in UsesAt(c, r) : \A j \in UsesAt(c, r + 1) : i < j
         /\ c < 7 =>
              \A i \in UsesAt(c, 7) : \A b \in BackgroundsOf(c + 1) : i < b

C10_Witness ==
  /\ pc = "exit"
  /\ Cardinality(Uses) = 56
  /\ \E i \in UsesAt(4, 1) : \E b \in BackgroundsOf(4) :
       b < i /\ children[i].href = "#white-pawn"

====
